---- MODULE Spec2Model ----
(***************************************************************************)
(* Model of adhoc-midi-scripts/abc_assembler.py: the ABC duration grammar, *)
(* the bar arithmetic, the header formatter and the section assembler.     *)
(*                                                                         *)
(* A Python str is a sequence of atoms.  An atom is a one-character string *)
(* ("C", "/", "\n") or a fixed run of characters that the code never looks *)
(* inside (a title word, the literal pieces of an f-string).  A Python     *)
(* float or int result is an exact rational <<numerator, denominator>> in  *)
(* lowest terms; rounding of IEEE doubles is not modelled.  A call's       *)
(* outcome is a record: [ok |-> TRUE, val |-> v] for a return,             *)
(* [ok |-> FALSE, err |-> type, msg |-> text] for a raised exception.      *)
(***************************************************************************)
EXTENDS Integers, Sequences, FiniteSets

VARIABLES header,   \* the caller's ABCHeader object, shared by successive calls
          call,     \* the call just made: its operation, arguments and outcome
          names     \* the assemble_instrument calls that have changed the header

vars == <<header, call, names>>

----------------------------------------------------------------------------
(* Bounds of the model *)

MaxNum == 9         \* largest N, D, U of a generated "N/D" meter or "1/U" unit length
MaxTextLen == 3     \* longest enumerated notation text
MaxBars == 2        \* largest declared bar count
MaxSections == 2    \* longest supplied section list
MaxStructure == 3   \* longest structure list
MaxCalls == 2       \* assemble_instrument calls that change one header
MaxNote == 127      \* highest MIDI note number given to inject_keyswitch
LowNotes == 12      \* how many note numbers below 0 are given to it

----------------------------------------------------------------------------
(* Strings, integers, rationals *)

Ok(v) == [ok |-> TRUE, val |-> v]
Raise(type, text) == [ok |-> FALSE, err |-> type, msg |-> text]

DigitChars == <<"0", "1", "2", "3", "4", "5", "6", "7", "8", "9">>
IsDigit(c) == \E i \in 1..10 : DigitChars[i] = c
DigitVal(c) == (CHOOSE i \in 1..10 : DigitChars[i] = c) - 1

\* str(n) for a natural number n
RECURSIVE FmtNat(_)
FmtNat(n) == IF n < 10 THEN <<DigitChars[n + 1]>>
             ELSE FmtNat(n \div 10) \o <<DigitChars[(n % 10) + 1]>>

\* the value of a non-empty run of decimal digits
RECURSIVE DigitsVal(_)
DigitsVal(s) == IF s = <<>> THEN 0
                ELSE 10 * DigitsVal(SubSeq(s, 1, Len(s) - 1)) + DigitVal(s[Len(s)])

AllDigits(s) == \A i \in 1..Len(s) : IsDigit(s[i])

\* int(s): the characters of the model's inputs are digits, "/" and letters,
\* so int succeeds exactly on a non-empty run of digits
PyInt(s) == IF s # <<>> /\ AllDigits(s) THEN Ok(DigitsVal(s))
            ELSE Raise("ValueError", <<"invalid literal for int()">>)

\* s.split(sep) for a one-character separator
RECURSIVE Split(_, _)
Split(s, sep) ==
    IF \A i \in 1..Len(s) : s[i] # sep THEN <<s>>
    ELSE LET i == CHOOSE k \in 1..Len(s) : s[k] = sep /\ \A j \in 1..(k - 1) : s[j] # sep
         IN  <<SubSeq(s, 1, i - 1)>> \o Split(SubSeq(s, i + 1, Len(s)), sep)

\* the longest prefix of s whose characters are all in set
RECURSIVE Run(_, _)
Run(s, set) == IF s # <<>> /\ s[1] \in set THEN <<s[1]>> \o Run(Tail(s), set) ELSE <<>>

Drop(s, n) == SubSeq(s, n + 1, Len(s))

DigitSet == {DigitChars[i] : i \in 1..10}

RECURSIVE Gcd(_, _)
Gcd(a, b) == IF b = 0 THEN a ELSE Gcd(b, a % b)

Abs(x) == IF x < 0 THEN -x ELSE x

\* rationals <<n, d>>, d > 0, in lowest terms
Rat(n, d) == LET g == Gcd(Abs(n), d) IN <<n \div g, d \div g>>
RatAdd(p, q) == Rat(p[1] * q[2] + q[1] * p[2], p[2] * q[2])
RatSub(p, q) == Rat(p[1] * q[2] - q[1] * p[2], p[2] * q[2])
RatAbs(p) == <<Abs(p[1]), p[2]>>
RatLess(p, q) == p[1] * q[2] < q[1] * p[2]
RatOfInt(n) == <<n, 1>>

----------------------------------------------------------------------------
(* Bar arithmetic *)

DefaultUnitsPerBar == 8

\* re.match(r'1/(\d+)', unit_length): group 1 of a match anchored at the start
\* of the string only, or <<>> when there is no match
UnitLengthMatch(unit_length) ==
    IF Len(unit_length) >= 3 /\ unit_length[1] = "1" /\ unit_length[2] = "/"
       /\ IsDigit(unit_length[3])
    THEN Run(Drop(unit_length, 2), DigitSet)
    ELSE <<>>

\* units_per_bar with the two denominators exchanged in the last line
units_per_bar_swapped(meter, unit_length) ==
    LET parts == Split(meter, "/")
        num == PyInt(parts[1])
        denom == PyInt(parts[2])
        group == UnitLengthMatch(unit_length)
        unit_denom == DigitsVal(group)
    IN  IF ~num.ok THEN num
        ELSE IF Len(parts) < 2
        THEN Raise("ValueError", <<"not enough values to unpack">>)
        ELSE IF ~denom.ok THEN denom
        ELSE IF Len(parts) > 2
        THEN Raise("ValueError", <<"too many values to unpack">>)
        ELSE IF group = <<>> THEN Ok(DefaultUnitsPerBar)
        ELSE IF unit_denom = 0
        THEN Raise("ZeroDivisionError", <<"integer division or modulo by zero">>)
        ELSE Ok((num.val * denom.val) \div unit_denom)

\* units_per_bar returning the default for a meter it cannot parse
units_per_bar_lenient(meter, unit_length) ==
    LET parts == Split(meter, "/")
        group == UnitLengthMatch(unit_length)
    IN  IF Len(parts) # 2 \/ ~PyInt(parts[1]).ok \/ ~PyInt(parts[2]).ok \/ group = <<>>
        THEN Ok(DefaultUnitsPerBar)
        ELSE IF PyInt(parts[2]).val = 0
        THEN Raise("ZeroDivisionError", <<"integer division or modulo by zero">>)
        ELSE Ok((PyInt(parts[1]).val * DigitsVal(group)) \div PyInt(parts[2]).val)

units_per_bar(meter, unit_length) ==
    LET parts == Split(meter, "/")
        num == PyInt(parts[1])
        denom == PyInt(parts[2])
        group == UnitLengthMatch(unit_length)
        unit_denom == DigitsVal(group)
    IN  IF ~num.ok THEN num
        ELSE IF Len(parts) < 2
        THEN Raise("ValueError", <<"not enough values to unpack">>)
        ELSE IF ~denom.ok THEN denom
        ELSE IF Len(parts) > 2
        THEN Raise("ValueError", <<"too many values to unpack">>)
        ELSE IF group = <<>> THEN Ok(DefaultUnitsPerBar)
        ELSE IF denom.val = 0
        THEN Raise("ZeroDivisionError", <<"integer division or modulo by zero">>)
        ELSE Ok((num.val * unit_denom) \div denom.val)

----------------------------------------------------------------------------
(* Duration grammar parser *)

Accidentals == {"_", "^", "="}
NoteLetters == {"A", "B", "C", "D", "E", "F", "G",
                "a", "b", "c", "d", "e", "f", "g", "z"}
OctaveMarks == {",", "'"}

\* position of the first c in s at or after position from, or 0
FirstAt(s, c, from) ==
    IF \E k \in from..Len(s) : s[k] = c
    THEN CHOOSE k \in from..Len(s) : s[k] = c /\ \A j \in from..(k - 1) : s[j] # c
    ELSE 0

\* re.sub(r'"[^"]*"', '', abc)
RECURSIVE StripQuoted(_)
StripQuoted(s) ==
    IF s = <<>> THEN <<>>
    ELSE LET close == FirstAt(s, "\"", 2)
         IN  IF s[1] = "\"" /\ close # 0 THEN StripQuoted(Drop(s, close))
             ELSE <<s[1]>> \o StripQuoted(Tail(s))

\* re.sub(r'\|+', ' ', clean)
RECURSIVE ReplaceBarLines(_)
ReplaceBarLines(s) ==
    IF s = <<>> THEN <<>>
    ELSE IF s[1] = "|" THEN <<" ">> \o ReplaceBarLines(Drop(s, Len(Run(s, {"|"}))))
    ELSE <<s[1]>> \o ReplaceBarLines(Tail(s))

\* the characters of s up to the end of its first line ('.' matches no newline)
RestOfLine(s) == LET nl == FirstAt(s, "\n", 1)
                 IN  IF nl = 0 THEN s ELSE SubSeq(s, 1, nl - 1)

\* re.sub(r'%%.*', '', clean)
RECURSIVE StripDirectives(_)
StripDirectives(s) ==
    IF s = <<>> THEN <<>>
    ELSE IF Len(s) >= 2 /\ s[1] = "%" /\ s[2] = "%"
    THEN StripDirectives(Drop(s, Len(RestOfLine(s))))
    ELSE <<s[1]>> \o StripDirectives(Tail(s))

\* re.sub(r'\[.*?\]', '', clean)
RECURSIVE StripChords(_)
StripChords(s) ==
    IF s = <<>> THEN <<>>
    ELSE LET close == FirstAt(RestOfLine(s), "]", 2)
         IN  IF s[1] = "[" /\ close # 0 THEN StripChords(Drop(s, close))
             ELSE <<s[1]>> \o StripChords(Tail(s))

Clean(abc) == StripChords(StripDirectives(ReplaceBarLines(StripQuoted(abc))))

\* note_pattern matched at the start of s: the number of characters matched
\* (0 when there is no match) and groups 4, 5, 6.  Each part of the pattern after
\* the letter is optional and greedy, so the match is built left to right.
NoMatch == [len |-> 0, num |-> <<>>, slash |-> <<>>, denom |-> <<>>]

MatchDenom(len, num, slash, denom) ==
    [len |-> len + Len(denom), num |-> num, slash |-> slash, denom |-> denom]

MatchSlash(len, num, rest) ==
    IF rest # <<>> /\ rest[1] = "/"
    THEN MatchDenom(len + 1, num, <<"/">>, Run(Tail(rest), DigitSet))
    ELSE MatchDenom(len, num, <<>>, Run(rest, DigitSet))

\* MatchNum taking a numerator of zeros only as no numerator
MatchNum_nonzero(len, num, rest) ==
    IF DigitsVal(num) = 0 THEN MatchSlash(len, <<>>, rest)
    ELSE MatchSlash(len + Len(num), num, Drop(rest, Len(num)))

\* group 4, (\d*): num is the run of digits that rest begins with
MatchNum(len, num, rest) == MatchSlash(len + Len(num), num, Drop(rest, Len(num)))

MatchOctave(len, octave, rest) ==
    MatchNum(len + Len(octave), Run(Drop(rest, Len(octave)), DigitSet),
             Drop(rest, Len(octave)))

MatchLetter(start, s) ==
    IF start = 0 THEN NoMatch
    ELSE MatchOctave(start, Run(Drop(s, start), OctaveMarks), Drop(s, start))

NoteMatch(s) ==
    MatchLetter(IF Len(s) >= 2 /\ s[1] \in Accidentals /\ s[2] \in NoteLetters THEN 2
                ELSE IF Len(s) >= 1 /\ s[1] \in NoteLetters THEN 1
                ELSE 0,
                s)

\* note_pattern.finditer(clean): the matches in scan order
RECURSIVE NoteMatches(_)
NoteMatches(s) ==
    IF s = <<>> THEN <<>>
    ELSE IF NoteMatch(s).len = 0 THEN NoteMatches(Tail(s))
    ELSE <<NoteMatch(s)>> \o NoteMatches(Drop(s, NoteMatch(s).len))

\* Duration with the numerator test moved to the front of the chain
Duration_numFirst(m) ==
    IF m.num # <<>> THEN Ok(RatOfInt(DigitsVal(m.num)))
    ELSE IF m.slash # <<>> /\ m.denom # <<>>
    THEN IF DigitsVal(m.denom) = 0
         THEN Raise("ZeroDivisionError", <<"float division by zero">>)
         ELSE Ok(Rat(1, DigitsVal(m.denom)))
    ELSE Ok(RatOfInt(1))

\* the if/elif chain of the loop body: the duration of one match
Duration(m) ==
    IF m.num # <<>> /\ m.slash # <<>> /\ m.denom # <<>>
    THEN IF DigitsVal(m.denom) = 0
         THEN Raise("ZeroDivisionError", <<"division by zero">>)
         ELSE Ok(Rat(DigitsVal(m.num), DigitsVal(m.denom)))
    ELSE IF m.slash # <<>> /\ m.denom # <<>>
    THEN IF DigitsVal(m.denom) = 0
         THEN Raise("ZeroDivisionError", <<"float division by zero">>)
         ELSE Ok(Rat(1, DigitsVal(m.denom)))
    ELSE IF m.num # <<>> THEN Ok(RatOfInt(DigitsVal(m.num)))
    ELSE Ok(RatOfInt(1))

\* the for loop: total += duration, match by match
RECURSIVE SumDurations(_, _)
SumDurations(ms, total) ==
    IF ms = <<>> THEN Ok(total)
    ELSE LET d == Duration(ms[1])
         IN  IF ~d.ok THEN d ELSE SumDurations(Tail(ms), RatAdd(total, d.val))

count_abc_units(abc) == SumDurations(NoteMatches(Clean(abc)), RatOfInt(0))

----------------------------------------------------------------------------
(* Bar validation *)

Tolerance == <<1, 100>>     \* the literal 0.01

\* f"{x:.2f}": x rounded to hundredths (ties are decided by the double nearest
\* to x in Python; here they round up), as digits, ".", two digits
Fixed2(x) ==
    LET h == (2 * 100 * x[1] + x[2]) \div (2 * x[2])
    IN  FmtNat(h \div 100) \o <<".">> \o FmtNat((h % 100) \div 10) \o FmtNat(h % 10)

\* f"{x}" of the float x, written as the integer part and ".0" when x is whole
\* and as the exact fraction otherwise
FmtFloat(x) == IF x[2] = 1 THEN FmtNat(x[1]) \o <<".", "0">>
               ELSE FmtNat(x[1]) \o <<"/">> \o FmtNat(x[2])

\* WithinTolerance with <= in place of <
WithinTolerance_inclusive(actual_bars, expected_bars) ==
    ~RatLess(Tolerance, RatAbs(RatSub(actual_bars, RatOfInt(expected_bars))))

WithinTolerance(actual_bars, expected_bars) ==
    RatLess(RatAbs(RatSub(actual_bars, RatOfInt(expected_bars))), Tolerance)

\* lines 116-121, given the values of upb and actual_units
BarsVerdict(upb, actual_units, actual_bars, expected_bars) ==
    IF WithinTolerance(actual_bars, expected_bars) THEN Ok(<<TRUE, <<>>>>)
    ELSE Ok(<<FALSE,
              <<"Expected ">> \o FmtNat(expected_bars) \o <<" bars (">>
              \o FmtNat(expected_bars * upb) \o <<" units), got ">>
              \o Fixed2(actual_bars) \o <<" bars (">>
              \o FmtFloat(actual_units) \o <<" units)">>>>)

\* lines 114-116 after the two calls: an exception of either call, or of the
\* division, ends validate_bars
BarsOutcome(upb, actual_units, expected_bars) ==
    IF ~upb.ok THEN upb
    ELSE IF ~actual_units.ok THEN actual_units
    ELSE IF upb.val = 0 THEN Raise("ZeroDivisionError", <<"float division by zero">>)
    ELSE BarsVerdict(upb.val, actual_units.val,
                     Rat(actual_units.val[1], actual_units.val[2] * upb.val),
                     expected_bars)

\* returns the pair <<valid, message>>
validate_bars(abc, expected_bars, meter, unit_length) ==
    BarsOutcome(units_per_bar(meter, unit_length), count_abc_units(abc), expected_bars)

----------------------------------------------------------------------------
(* Header formatter *)

\* sep.join(parts)
RECURSIVE Join(_, _)
Join(parts, sep) ==
    IF parts = <<>> THEN <<>>
    ELSE IF Len(parts) = 1 THEN parts[1]
    ELSE parts[1] \o <<sep>> \o Join(Tail(parts), sep)

\* HeaderLines testing the truth of header.tempo instead of "is not None"
HeaderLines_truthy(h, index) ==
    << <<"X:">> \o FmtNat(index),
       <<"T:">> \o h.title,
       <<"M:">> \o h.meter,
       <<"L:">> \o h.unit_length >>
    \o (IF h.tempo # <<>> /\ h.tempo # <<0>>
        THEN << <<"Q:1/4=">> \o FmtNat(h.tempo[1]) >> ELSE <<>>)
    \o << <<"K:">> \o h.key,
          <<"%%MIDI program ">> \o FmtNat(h.midi_program),
          <<"%%MIDI channel ">> \o FmtNat(h.midi_channel) >>

\* header.tempo is <<>> for None and <<t>> for the integer t
HeaderLines(h, index) ==
    << <<"X:">> \o FmtNat(index),
       <<"T:">> \o h.title,
       <<"M:">> \o h.meter,
       <<"L:">> \o h.unit_length >>
    \o (IF h.tempo # <<>> THEN << <<"Q:1/4=">> \o FmtNat(h.tempo[1]) >> ELSE <<>>)
    \o << <<"K:">> \o h.key,
          <<"%%MIDI program ">> \o FmtNat(h.midi_program),
          <<"%%MIDI channel ">> \o FmtNat(h.midi_channel) >>

generate_abc_header(h, index) == Join(HeaderLines(h, index), "\n")

----------------------------------------------------------------------------
(* Event generators *)

PitchNames == << <<"C">>, <<"^", "C">>, <<"D">>, <<"^", "D">>, <<"E">>, <<"F">>,
                 <<"^", "F">>, <<"G">>, <<"^", "G">>, <<"A">>, <<"^", "A">>, <<"B">> >>

\* str.lower() on the characters of a pitch name
LowerChar(c) == CASE c = "A" -> "a" [] c = "B" -> "b" [] c = "C" -> "c"
                  [] c = "D" -> "d" [] c = "E" -> "e" [] c = "F" -> "f"
                  [] c = "G" -> "g" [] OTHER -> c
Lower(s) == [i \in 1..Len(s) |-> LowerChar(s[i])]

\* c * n
Repeat(c, n) == [i \in 1..n |-> c]

\* OctaveMarked adding one apostrophe per octave above 0
OctaveMarked_perOctave(pitch, octave) ==
    IF octave < 0 THEN pitch \o Repeat(",", Abs(octave))
    ELSE IF octave > 0 THEN Lower(pitch) \o Repeat("'", octave)
    ELSE pitch

\* the octave modifiers of lines 154-160
OctaveMarked(pitch, octave) ==
    IF octave < 0 THEN pitch \o Repeat(",", Abs(octave))
    ELSE IF octave > 0
    THEN IF octave > 1 THEN Lower(pitch) \o Repeat("'", octave - 1) ELSE Lower(pitch)
    ELSE pitch

\* inject_keyswitch leaving the strike outside a chord group
inject_keyswitch_unbracketed(note, beat, unit_length) ==
    OctaveMarked(PitchNames[(note % 12) + 1], (note \div 12) - 5)
    \o <<"/", "8", "z", "7", "/", "8">>

\* f"[{pitch}/8]z7/8"; // and % of Python round towards minus infinity, as
\* \div and % do
inject_keyswitch(note, beat, unit_length) ==
    <<"[">> \o OctaveMarked(PitchNames[(note % 12) + 1], (note \div 12) - 5)
    \o <<"/", "8", "]", "z", "7", "/", "8">>

\* f"%%MIDI control {cc} {value}"
inject_cc(cc, value) == <<"%%MIDI control ">> \o FmtNat(cc) \o <<" ">> \o FmtNat(value)

----------------------------------------------------------------------------
(* Section assembler *)

\* section_map = {s.name: s for s in sections}: a later section of the same
\* name replaces an earlier one
InSectionMap(sections, name) == \E i \in 1..Len(sections) : sections[i].name = name
SectionMap(sections, name) ==
    sections[CHOOSE i \in 1..Len(sections) :
                /\ sections[i].name = name
                /\ \A j \in (i + 1)..Len(sections) : sections[j].name # name]

\* ValidateSections reporting the last invalid section instead of the first
RECURSIVE ValidateSections_lastFirst(_, _, _)
ValidateSections_lastFirst(sections, i, h) ==
    IF i > Len(sections) THEN Ok(TRUE)
    ELSE LET v == validate_bars(sections[i].abc, sections[i].bars, h.meter, h.unit_length)
             rest == ValidateSections_lastFirst(sections, i + 1, h)
         IN  IF ~rest.ok THEN rest
             ELSE IF ~v.ok THEN v
             ELSE IF ~v.val[1]
             THEN Raise("ValueError", <<"Section '", sections[i].name, "': ">> \o v.val[2])
             ELSE Ok(TRUE)

\* lines 186-188 for one section, v being what validate_bars gave
SectionVerdict(v, name) ==
    IF ~v.ok THEN v
    ELSE IF ~v.val[1] THEN Raise("ValueError", <<"Section '", name, "': ">> \o v.val[2])
    ELSE Ok(TRUE)

\* an exception ends the loop; otherwise the loop goes on
OrElse(outcome, rest) == IF ~outcome.ok THEN outcome ELSE rest

\* the validation loop from section i on: Ok(TRUE) when every section is valid,
\* or the first exception raised
RECURSIVE ValidateSections(_, _, _)
ValidateSections(sections, i, h) ==
    IF i > Len(sections) THEN Ok(TRUE)
    ELSE OrElse(SectionVerdict(validate_bars(sections[i].abc, sections[i].bars,
                                             h.meter, h.unit_length),
                               sections[i].name),
                ValidateSections(sections, i + 1, h))

\* AssembleBody emitting each section once, at its first occurrence
RECURSIVE AssembleBody_noRepeats(_, _, _, _)
AssembleBody_noRepeats(sections, structure, i, abc_content) ==
    IF i > Len(structure) THEN Ok(Join(abc_content, "\n"))
    ELSE IF ~InSectionMap(sections, structure[i])
    THEN Raise("ValueError", <<"Unknown section: ", structure[i]>>)
    ELSE IF \E j \in 1..(i - 1) : structure[j] = structure[i]
    THEN AssembleBody_noRepeats(sections, structure, i + 1, abc_content)
    ELSE AssembleBody_noRepeats(sections, structure, i + 1,
             abc_content \o << <<"% Section: ", structure[i]>>,
                               SectionMap(sections, structure[i]).abc >>)

\* AssembleBody passing over a name that is not in section_map
RECURSIVE AssembleBody_skipUnknown(_, _, _, _)
AssembleBody_skipUnknown(sections, structure, i, abc_content) ==
    IF i > Len(structure) THEN Ok(Join(abc_content, "\n"))
    ELSE IF ~InSectionMap(sections, structure[i])
    THEN AssembleBody_skipUnknown(sections, structure, i + 1, abc_content)
    ELSE AssembleBody_skipUnknown(sections, structure, i + 1,
             abc_content \o << <<"% Section: ", structure[i]>>,
                               SectionMap(sections, structure[i]).abc >>)

\* the body loop from structure entry i on, abc_content being the lines so far
RECURSIVE AssembleBody(_, _, _, _)
AssembleBody(sections, structure, i, abc_content) ==
    IF i > Len(structure) THEN Ok(Join(abc_content, "\n"))
    ELSE IF ~InSectionMap(sections, structure[i])
    THEN Raise("ValueError", <<"Unknown section: ", structure[i]>>)
    ELSE AssembleBody(sections, structure, i + 1,
             abc_content \o << <<"% Section: ", structure[i]>>,
                               SectionMap(sections, structure[i]).abc >>)

\* Retitled replacing an earlier instrument suffix instead of adding to it
Retitled_replacing(h, instrument_name) ==
    [h EXCEPT !.title = <<h.title[1], " - ", instrument_name>>]

\* the header after the title assignment of line 191
Retitled(h, instrument_name) ==
    [h EXCEPT !.title = h.title \o <<" - ", instrument_name>>]

\* AssembleChecked resolving the structure before it looks at the validation
AssembleChecked_structureFirst(checked, sections, structure, h, h2) ==
    IF \E i \in 1..Len(structure) : ~InSectionMap(sections, structure[i])
    THEN [res |-> AssembleBody(sections, structure, 1,
                               <<generate_abc_header(h2, 1), <<>>>>),
          header |-> h2]
    ELSE IF ~checked.ok THEN [res |-> checked, header |-> h]
    ELSE [res |-> AssembleBody(sections, structure, 1,
                               <<generate_abc_header(h2, 1), <<>>>>),
          header |-> h2]

\* lines 190-207, checked being the outcome of the validation loop
AssembleChecked(checked, sections, structure, h, h2) ==
    IF ~checked.ok THEN [res |-> checked, header |-> h]
    ELSE [res |-> AssembleBody(sections, structure, 1,
                               <<generate_abc_header(h2, 1), <<>>>>),
          header |-> h2]

\* the tokens of the given events: one keyswitch token per Keyswitch, one
\* control directive per (beat, value) pair of the first CCAutomation
EventTokens(keyswitches, automation, h) ==
    (IF keyswitches # <<>> /\ keyswitches[1] # <<>>
     THEN inject_keyswitch(keyswitches[1][1].note, keyswitches[1][1].beat, h.unit_length)
     ELSE <<>>)
    \o (IF automation # <<>> /\ automation[1] # <<>>
        THEN <<"\n">> \o inject_cc(automation[1][1].cc, automation[1][1].values[1][2])
        ELSE <<>>)

WithEvents(out, tokens) ==
    IF out.res.ok THEN [out EXCEPT !.res.val = out.res.val \o tokens] ELSE out

\* assemble_instrument carrying out the TODO of lines 202-203: the tokens of
\* the given events are added to the document
assemble_instrument_injecting(instrument_name, sections, structure, h, keyswitches, automation) ==
    WithEvents(AssembleChecked(ValidateSections(sections, 1, h), sections, structure,
                               h, Retitled(h, instrument_name)),
               EventTokens(keyswitches, automation, h))

\* the outcome of the call and the header object as the call leaves it;
\* keyswitches and automation are <<>> for None and <<list>> for a list, and
\* no line of the function reads them
assemble_instrument(instrument_name, sections, structure, h, keyswitches, automation) ==
    AssembleChecked(ValidateSections(sections, 1, h), sections, structure,
                    h, Retitled(h, instrument_name))

----------------------------------------------------------------------------
(* Inputs of the calls *)

SeqsUpTo(S, n) == UNION {[1..k -> S] : k \in 0..n}

\* f"{n}/{d}"
Frac(n, d) == FmtNat(n) \o <<"/">> \o FmtNat(d)

MalformedMeters == {<<>>, <<"4">>, <<"4", "/", "4", "/", "4">>, <<"x", "/", "y">>,
                    <<"4", "/">>, <<"/", "4">>, <<"4", "/", "0">>}
Meters == {Frac(n, d) : n \in 1..MaxNum, d \in 1..MaxNum} \cup MalformedMeters

OddUnitLengths == {<<>>, <<"1", "/", "8", "x">>, <<"2", "/", "8">>, <<"1", "/">>,
                   <<"1", "1", "/", "8">>, <<"x">>, <<"1", "/", "x">>, <<"8">>}
UnitLengths == {Frac(1, u) : u \in 1..MaxNum} \cup OddUnitLengths

\* characters of the token grammar, and characters of the preprocessing steps
TokenChars == {"C", "z", "^", ",", "2", "3", "0", "/"}
CleanChars == {"C", "2", "\"", "|", "%", "[", "]", "\n"}

T_C == <<"C">>
T_C2 == <<"C", "2">>
T_Chalf == <<"C", "/", "2">>
T_C3over2 == <<"C", "3", "/", "2">>
T_z4 == <<"z", "4">>
T_z8 == <<"z", "8">>
T_4xC2 == <<"C", "2", "C", "2", "C", "2", "C", "2">>
T_mixed == <<"C", "/", "2", "C", "/", "2", "C", "3", "/", "2", "^", "C", ",", "3", "/", "2", "z", "4">>
T_under == <<"C", "1", "0", "0", "9", "9", "/", "1", "2", "5", "0">>
T_over == <<"C", "1", "0", "1", "1", "/", "1", "2", "5">>
T_edge == <<"C", "2", "0", "2", "/", "2", "5">>
T_zeroDenom == <<"C", "/", "0">>
T_zeroDenom2 == <<"C", "3", "/", "0">>
TextA == <<"C", "2", "C", "2", "C", "2", "C", "2", " ", "|", " ", "C", "2", "C", "2", "C", "2", "C", "2", " ", "|">>
TextB == <<"z", "8", " ", "|", " ", "z", "8", " ", "|">>

ExampleTexts == {T_C, T_C2, T_Chalf, T_C3over2, T_z4, T_z8, T_4xC2, T_mixed, T_under,
                 T_over, T_edge, T_zeroDenom, T_zeroDenom2, TextA, TextB}

\* chord groups: alone, followed by digits, after a note, before a note
T_chord == <<"[", "C", "E", "G", "]">>
T_chord4 == <<"[", "C", "E", "G", "]", "4">>
T_noteChord == <<"C", "[", "E", "]", "2">>
T_chordNote == <<"[", "C", "E", "]", "2", "C", "2">>
T_twoChords == <<"[", "C", "E", "]", "z", "[", "E", "G", "]", "2">>
ChordTexts == {T_chord, T_chord4, T_noteChord, T_chordNote, T_twoChords}

\* arguments of inject_keyswitch
Notes == (0 - LowNotes)..MaxNote
Beats == {<<0, 1>>, <<3, 2>>}
KeyswitchUnitLengths == {Frac(1, 8), Frac(1, 4)}

\* a keyswitch token alone and at the end of a section's text
KeyswitchHosts == {<<>>, T_C, T_Chalf, <<"C", "4", "C", "4", "|">>}
KeyswitchTexts == {host \o inject_keyswitch(note, <<0, 1>>, Frac(1, 8))
                   : host \in KeyswitchHosts, note \in Notes}

CountTexts == SeqsUpTo(TokenChars, MaxTextLen) \cup SeqsUpTo(CleanChars, MaxTextLen)
              \cup ExampleTexts \cup ChordTexts \cup KeyswitchTexts

ValidateMeters == {Frac(4, 4), Frac(3, 4), Frac(1, 8), <<"4">>}
ValidateUnitLengths == {Frac(1, 8), Frac(1, 4), <<"x">>}

InstrumentNames == {"bass", "lead"}
SectionNames == {"A", "B"}
BodyA == <<"C", "4", "C", "4", "|">>
BodyB == <<"z", "8", "|">>
SectionPool == {[name |-> "A", bars |-> 1, abc |-> BodyA],
                [name |-> "A", bars |-> 2, abc |-> BodyA],
                [name |-> "B", bars |-> 1, abc |-> BodyB],
                [name |-> "B", bars |-> 2, abc |-> BodyB]}

OriginalTitle == <<"Song">>
Tempos == {<<120>>}
Headers == {[title |-> OriginalTitle, meter |-> Frac(4, 4), unit_length |-> Frac(1, 8),
             tempo |-> t, key |-> <<"C">>, midi_program |-> 0, midi_channel |-> 1]
            : t \in Tempos}

\* headers given to the formatter alone: tempo unset, zero and positive
RenderTempos == {<<>>, <<0>>, <<120>>} \cup {<<t>> : t \in 1..MaxNum}
RenderHeaders == {[title |-> title, meter |-> Frac(4, 4), unit_length |-> Frac(1, 8),
                   tempo |-> t, key |-> key, midi_program |-> 0, midi_channel |-> 1]
                  : title \in {OriginalTitle, <<"Song", " - ", "bass">>},
                    t \in RenderTempos, key \in {<<"C">>, <<"D", "m">>}}
RenderIndexes == {1, 2}

\* the keyswitches and automation arguments: None, an empty list, one event
KeyswitchArgs == {<<>>, << <<>> >>, << <<[note |-> 36, beat |-> <<0, 1>>]>> >>}
AutomationArgs == {<<>>, << <<[cc |-> 1, values |-> << <<<<0, 1>>, 64>> >>]>> >>}

----------------------------------------------------------------------------
(* The calls *)

NoCall == [op |-> "none"]

Init == /\ header \in Headers
        /\ call = NoCall
        /\ names = <<>>

CallUnitsPerBar ==
    \E meter \in Meters, unit_length \in UnitLengths :
        /\ call = NoCall
        /\ call' = [op |-> "units_per_bar", meter |-> meter, unit_length |-> unit_length,
                    res |-> units_per_bar(meter, unit_length)]
        /\ UNCHANGED <<header, names>>

CallCountAbcUnits ==
    \E abc \in CountTexts :
        /\ call = NoCall
        /\ call' = [op |-> "count_abc_units", abc |-> abc, res |-> count_abc_units(abc)]
        /\ UNCHANGED <<header, names>>

CallValidateBars ==
    \E abc \in ExampleTexts, expected_bars \in 0..MaxBars,
       meter \in ValidateMeters, unit_length \in ValidateUnitLengths :
        /\ call = NoCall
        /\ call' = [op |-> "validate_bars", abc |-> abc, expected_bars |-> expected_bars,
                    meter |-> meter, unit_length |-> unit_length,
                    res |-> validate_bars(abc, expected_bars, meter, unit_length)]
        /\ UNCHANGED <<header, names>>

\* h is the header object before the call and after the call its fields
\* after it: the function reads the fields and assigns none
CallGenerateAbcHeader ==
    \E h \in RenderHeaders, index \in RenderIndexes :
        /\ call = NoCall
        /\ call' = [op |-> "generate_abc_header", header |-> h, index |-> index,
                    after |-> h, res |-> Ok(generate_abc_header(h, index))]
        /\ UNCHANGED <<header, names>>

CallInjectKeyswitch ==
    \E note \in Notes, beat \in Beats, unit_length \in KeyswitchUnitLengths :
        /\ call = NoCall
        /\ call' = [op |-> "inject_keyswitch", note |-> note, beat |-> beat,
                    unit_length |-> unit_length,
                    res |-> Ok(inject_keyswitch(note, beat, unit_length))]
        /\ UNCHANGED <<header, names>>

\* names records every call that changed the header object: its instrument name
\* and whether it returned a document
AssembleOutcome(instrument_name, sections, structure, keyswitches, automation, out) ==
    /\ call' = [op |-> "assemble_instrument", instrument_name |-> instrument_name,
                sections |-> sections, structure |-> structure,
                keyswitches |-> keyswitches, automation |-> automation,
                before |-> header, res |-> out.res]
    /\ header' = out.header
    /\ names' = IF out.header = header THEN names
                 ELSE Append(names, [name |-> instrument_name, returned |-> out.res.ok])

\* a call whose keyswitches and automation arguments are drawn from KS and AU
AssembleCall(KS, AU) ==
    /\ call = NoCall
    /\ Len(names) < MaxCalls
    /\ \E instrument_name \in InstrumentNames,
          sections \in SeqsUpTo(SectionPool, MaxSections),
          structure \in SeqsUpTo(SectionNames, MaxStructure),
          keyswitches \in KS, automation \in AU :
           AssembleOutcome(instrument_name, sections, structure, keyswitches, automation,
               assemble_instrument(instrument_name, sections, structure, header,
                                   keyswitches, automation))

\* the call as main() makes it: keyswitches and automation left at None
CallAssembleInstrument == AssembleCall({<<>>}, {<<>>})

\* the first call on a header, with every combination of event arguments
CallAssembleWithEvents == names = <<>> /\ AssembleCall(KeyswitchArgs, AutomationArgs)

\* the caller takes the outcome of the call; the next call can start
Return == /\ call # NoCall
          /\ call' = NoCall
          /\ UNCHANGED <<header, names>>

NextBar == \/ CallUnitsPerBar
           \/ CallCountAbcUnits
           \/ CallValidateBars
           \/ CallGenerateAbcHeader
           \/ CallInjectKeyswitch
           \/ Return

Next == CallAssembleInstrument \/ Return

NextEvents == CallAssembleWithEvents \/ Return

\* the pure functions, called in any order on any of their inputs
SpecBar == Init /\ [][NextBar]_vars

\* successive assemble_instrument calls on one header object
Spec == Init /\ [][Next]_vars

\* one assemble_instrument call given keyswitches and automation
SpecEvents == Init /\ [][NextEvents]_vars

----------------------------------------------------------------------------
(* Properties of the bar arithmetic and of the duration parser (SpecBar) *)

\* meter is "N/D": two non-empty runs of digits around one "/"
IsFraction(meter) ==
    \E i \in 1..Len(meter) :
        /\ meter[i] = "/"
        /\ i > 1 /\ i < Len(meter)
        /\ \A j \in 1..Len(meter) : j # i => IsDigit(meter[j])

\* unit_length is "1/D", D a run of digits
IsUnitShape(unit_length) ==
    /\ Len(unit_length) >= 3
    /\ unit_length[1] = "1" /\ unit_length[2] = "/"
    /\ \A j \in 3..Len(unit_length) : IsDigit(unit_length[j])

\* unit_length begins with "1/" and a digit
BeginsWithUnitShape(unit_length) ==
    /\ Len(unit_length) >= 3
    /\ unit_length[1] = "1" /\ unit_length[2] = "/" /\ IsDigit(unit_length[3])

\* C1: for meter "N/D" and unit length "1/U" with positive N, D, U, units_per_bar
\* returns floor(N * U / D); (4/4, 1/8) gives 8, (3/4, 1/8) gives 6, and the
\* inexact (3/8, 1/4) is truncated to 1 without an error.
C1_UnitsPerBarFloor ==
    call.op = "units_per_bar" =>
        /\ \A n, d \in 1..MaxNum :
              call.meter = Frac(n, d) =>
                  \A u \in 1..MaxNum :
                      call.unit_length = Frac(1, u) => call.res = Ok((n * u) \div d)
        /\ (call.meter = <<"4", "/", "4">> /\ call.unit_length = <<"1", "/", "8">>)
              => call.res = Ok(8)
        /\ (call.meter = <<"3", "/", "4">> /\ call.unit_length = <<"1", "/", "8">>)
              => call.res = Ok(6)
        /\ (call.meter = <<"3", "/", "8">> /\ call.unit_length = <<"1", "/", "4">>)
              => call.res = Ok(1)

C1_Witness ==
    /\ call.op = "units_per_bar"
    /\ call.meter = <<"3", "/", "8">> /\ call.unit_length = <<"1", "/", "4">>
    /\ call.res = Ok(1)

\* 100 * |units / upb - expected_bars| < 1, for units = <<n, d>>, in integers
CloseEnough(units, upb, expected_bars) ==
    100 * Abs(units[1] - expected_bars * upb * units[2]) < upb * units[2]

\* C2: validate_bars succeeds iff |count_abc_units(text) / units_per_bar(meter,
\* unit_length) - expected_bars| < 0.01; 1.0099 bars pass for 1 expected bar, 1.011
\* bars fail, and every text of exactly expected_bars * units_per_bar units passes.
C2_ValidateIffWithinTolerance ==
    call.op = "validate_bars" =>
        LET upb == units_per_bar(call.meter, call.unit_length)
            units == count_abc_units(call.abc)
        IN  (upb.ok /\ units.ok /\ upb.val > 0) =>
                /\ call.res.ok
                /\ call.res.val[1] = CloseEnough(units.val, upb.val, call.expected_bars)
                /\ units.val = <<call.expected_bars * upb.val, 1>> => call.res.val[1]
                /\ (call.meter = Frac(4, 4) /\ call.unit_length = Frac(1, 8)
                    /\ call.expected_bars = 1) =>
                       /\ call.abc = T_under => call.res.val[1]
                       /\ call.abc = T_over => ~call.res.val[1]
                       /\ call.abc \in {T_z8, T_4xC2, T_mixed} => call.res.val[1]

C2_Witness ==
    /\ call.op = "validate_bars"
    /\ call.abc = T_under /\ call.expected_bars = 1
    /\ call.meter = Frac(4, 4) /\ call.unit_length = Frac(1, 8)
    /\ call.res.ok /\ call.res.val[1]

\* the duration the precedence table gives one token
TableDuration(m) ==
    CASE m.num # <<>> /\ m.slash # <<>> /\ m.denom # <<>> ->
             <<DigitsVal(m.num), DigitsVal(m.denom)>>
      [] m.num = <<>> /\ m.slash # <<>> /\ m.denom # <<>> -> <<1, DigitsVal(m.denom)>>
      [] m.num # <<>> /\ m.denom = <<>> -> <<DigitsVal(m.num), 1>>
      [] m.num = <<>> /\ m.denom = <<>> -> <<1, 1>>

\* numerator and denominator of the sum of the fractions of ms, not reduced
RECURSIVE TableSum(_)
TableSum(ms) ==
    IF ms = <<>> THEN <<0, 1>>
    ELSE LET rest == TableSum(SubSeq(ms, 1, Len(ms) - 1))
             last == TableDuration(ms[Len(ms)])
         IN  <<rest[1] * last[2] + last[1] * rest[2], rest[2] * last[2]>>

\* C3: each matched token's duration is numerator/denominator, else 1/denominator,
\* else the numerator, else 1, by first match; count_abc_units is the sum of the
\* durations: "C" is 1, "C2" is 2, "C/2" is 0.5, "C3/2" is 1.5, "z4" is 4.
C3_TokenDurations ==
    (call.op = "count_abc_units" /\ call.res.ok) =>
        LET sum == TableSum(NoteMatches(Clean(call.abc)))
        IN  /\ call.res.val[1] * sum[2] = sum[1] * call.res.val[2]
            /\ call.abc = T_C => call.res.val = <<1, 1>>
            /\ call.abc = T_C2 => call.res.val = <<2, 1>>
            /\ call.abc = T_Chalf => call.res.val = <<1, 2>>
            /\ call.abc = T_C3over2 => call.res.val = <<3, 2>>
            /\ call.abc = T_z4 => call.res.val = <<4, 1>>

C3_Witness ==
    /\ call.op = "count_abc_units"
    /\ call.abc = T_C3over2
    /\ call.res = Ok(<<3, 2>>)

\* C4: for every notation string count_abc_units returns a non-negative total and
\* never raises, strings with a zero denominator ("C/0", "C3/0") included.
C4_CountNeverFails ==
    call.op = "count_abc_units" => (call.res.ok /\ call.res.val[1] >= 0)

\* C5: for a meter string that is not "N/D" with integers N and D, units_per_bar
\* returns the default 8 instead of raising.
C5_MalformedMeterFallsBack ==
    (call.op = "units_per_bar" /\ ~IsFraction(call.meter)) =>
        call.res = Ok(DefaultUnitsPerBar)

\* C5 as amended: a meter string that is not "N/D" with integers N and D makes
\* units_per_bar, and validate_bars with it, raise ValueError whatever the unit
\* length; the fallback 8 is returned when the meter is "N/D" and the unit length
\* does not begin with "1/D".
C5_MalformedMeterRaises ==
    /\ call.op \in {"units_per_bar", "validate_bars"} =>
          (~IsFraction(call.meter) => (~call.res.ok /\ call.res.err = "ValueError"))
    /\ call.op = "units_per_bar" =>
          ((IsFraction(call.meter) /\ ~BeginsWithUnitShape(call.unit_length))
              => call.res = Ok(DefaultUnitsPerBar))

C5_Witness ==
    /\ call.op = "units_per_bar"
    /\ call.meter = <<"4">> /\ call.unit_length = <<"x">>
    /\ ~call.res.ok /\ call.res.err = "ValueError"

\* C6: with a well-formed meter, units_per_bar returns the fallback 8 for every
\* unit-length string that is not "1/D", "1/8x" and "2/8" included, whatever the
\* meter.
C6_FallbackUnlessUnitShape ==
    (call.op = "units_per_bar" /\ IsFraction(call.meter)
     /\ ~IsUnitShape(call.unit_length)) =>
        call.res = Ok(DefaultUnitsPerBar)

\* characters of note tokens and of the space between them
PlainChars == Accidentals \cup NoteLetters \cup OctaveMarks \cup DigitSet \cup {"/", " "}
IsPlain(s) == \A i \in 1..Len(s) : s[i] \in PlainChars

\* the total is the total of what precedes the group plus the total of what
\* follows the group and its digits
CountsAround(res, before, after) ==
    (before.ok /\ after.ok) => res = Ok(RatAdd(before.val, after.val))

ChordGroupAt(abc, i, j) ==
    /\ i < j /\ abc[i] = "[" /\ abc[j] = "]"
    /\ IsPlain(SubSeq(abc, 1, i - 1))
    /\ IsPlain(SubSeq(abc, i + 1, j - 1))
    /\ IsPlain(Drop(abc, j))

\* C13: a bracketed chord group contributes 0: the notes inside a "[...]" group
\* closed on the same line and the duration digits that follow it ("[CEG]4")
\* add nothing to the total, and the tokens outside the group are counted as
\* they are without the group.
C13_ChordGroupContributesZero ==
    call.op = "count_abc_units" =>
        \A i, j \in 1..Len(call.abc) :
            ChordGroupAt(call.abc, i, j) =>
                CountsAround(call.res,
                    count_abc_units(SubSeq(call.abc, 1, i - 1)),
                    count_abc_units(Drop(call.abc,
                        j + Len(Run(Drop(call.abc, j), DigitSet)))))

\* an optional accidental, a note letter and octave marks
IsNoteHead(s) ==
    \E k \in 1..2 :
        /\ Len(s) >= k
        /\ s[k] \in NoteLetters
        /\ k = 2 => s[1] \in Accidentals
        /\ \A i \in (k + 1)..Len(s) : s[i] \in OctaveMarks

\* abc is one token with a numerator alone; the numerator starts after position k
NumeratorAloneAt(abc, k) ==
    /\ IsNoteHead(SubSeq(abc, 1, k))
    /\ k < Len(abc)
    /\ AllDigits(Drop(abc, k))

\* C17: a token with a numerator alone has a duration equal to the numerator,
\* an integer of at least 1, for every digit string accepted as numerator, "0"
\* and strings with leading zeros included.
C17_NumeratorAtLeastOne ==
    call.op = "count_abc_units" =>
        \A k \in 1..Len(call.abc) :
            NumeratorAloneAt(call.abc, k) =>
                /\ call.res = Ok(RatOfInt(DigitsVal(Drop(call.abc, k))))
                /\ call.res.val[1] >= 1

\* C17 as amended: a token with a numerator alone has a duration equal to the
\* numerator read as a decimal integer, leading zeros ignored; it is 0 when
\* every digit is "0" and at least 1 otherwise.
C17_NumeratorValue ==
    call.op = "count_abc_units" =>
        \A k \in 1..Len(call.abc) :
            NumeratorAloneAt(call.abc, k) =>
                /\ call.res = Ok(RatOfInt(DigitsVal(Drop(call.abc, k))))
                /\ call.res.val[1] = 0 <=>
                       \A i \in (k + 1)..Len(call.abc) : call.abc[i] = "0"
                /\ call.res.val[1] >= 0

C17_Witness ==
    /\ call.op = "count_abc_units"
    /\ call.abc = <<"C", "0">>
    /\ call.res = Ok(<<0, 1>>)

\* "N/D" and "1/U" with positive integers N, D, U
IsPositiveMeter(meter) ==
    /\ IsFraction(meter)
    /\ \A part \in {Split(meter, "/")[1], Split(meter, "/")[2]} : DigitsVal(part) > 0
IsPositiveUnit(unit_length) ==
    /\ IsUnitShape(unit_length)
    /\ DigitsVal(Drop(unit_length, 2)) > 0

\* C19: for every meter "N/D" and unit length "1/U" with positive integers and
\* every text and declared bar count, validate_bars returns a pair of a flag and
\* a message, the message empty exactly when the flag is true, and fails in no
\* other way, also when floor(N * U / D) is 0 (meter "1/8", unit length "1/4").
\* Stated for the texts that count_abc_units totals: a text on which the parser
\* itself fails is a different failure.
C19_ValidateAlwaysReturnsPair ==
    (/\ call.op = "validate_bars"
     /\ IsPositiveMeter(call.meter)
     /\ IsPositiveUnit(call.unit_length)
     /\ count_abc_units(call.abc).ok) =>
        /\ call.res.ok
        /\ call.res.val[1] <=> call.res.val[2] = <<>>

\* the lines of a rendered header, for a header h and a tune index
ExpectedHeaderLines(h, index, tempo_lines) ==
    << <<"X:">> \o FmtNat(index), <<"T:">> \o h.title, <<"M:">> \o h.meter,
       <<"L:">> \o h.unit_length >>
    \o tempo_lines
    \o << <<"K:">> \o h.key, <<"%%MIDI program ">> \o FmtNat(h.midi_program),
          <<"%%MIDI channel ">> \o FmtNat(h.midi_channel) >>

RenderedAs(lines, h, index) ==
    /\ h.tempo = <<>> =>
           /\ Len(lines) = 7
           /\ lines = ExpectedHeaderLines(h, index, <<>>)
    /\ h.tempo # <<>> =>
           /\ Len(lines) = 8
           /\ lines = ExpectedHeaderLines(h, index,
                          << <<"Q:1/4=">> \o FmtNat(h.tempo[1]) >>)

\* C11: generate_abc_header leaves the header as it was and returns the lines
\* index, title, meter, unit length, tempo, key, program, channel in that
\* order, separated by newlines; the tempo line is absent when the tempo is
\* unset and is "Q:1/4=<tempo>" for every set tempo, 0 included; so the
\* header has 7 lines without a tempo and 8 with one.
C11_HeaderRendering ==
    call.op = "generate_abc_header" =>
        /\ call.after = call.header
        /\ call.res.ok
        /\ RenderedAs(Split(call.res.val, "\n"), call.header, call.index)

C11_Witness ==
    /\ call.op = "generate_abc_header"
    /\ call.header.tempo = <<0>>
    /\ Len(Split(call.res.val, "\n")) = 8

UpperNames == << <<"C">>, <<"^", "C">>, <<"D">>, <<"^", "D">>, <<"E">>, <<"F">>,
                 <<"^", "F">>, <<"G">>, <<"^", "G">>, <<"A">>, <<"^", "A">>, <<"B">> >>
LowerNames == << <<"c">>, <<"^", "c">>, <<"d">>, <<"^", "d">>, <<"e">>, <<"f">>,
                 <<"^", "f">>, <<"g">>, <<"^", "g">>, <<"a">>, <<"^", "a">>, <<"b">> >>

\* floor(n / 12) and n mod 12: n = 12 * q + r with 0 <= r < 12
FloorTwelfth(n) == CHOOSE q \in -(LowNotes + 1)..MaxNote : 12 * q <= n /\ n < 12 * q + 12
ModTwelve(n) == n - 12 * FloorTwelfth(n)

ExpectedPitch(k, o) ==
    IF o < 0 THEN UpperNames[k + 1] \o [i \in 1..(0 - o) |-> ","]
    ELSE IF o = 0 THEN UpperNames[k + 1]
    ELSE IF o = 1 THEN LowerNames[k + 1]
    ELSE LowerNames[k + 1] \o [i \in 1..(o - 1) |-> "'"]

\* C14: inject_keyswitch maps note n to the pitch name at n mod 12 with octave
\* o = floor(n / 12) - 5: upper case with |o| commas for o < 0, bare upper case
\* for o = 0, lower case for o = 1, lower case with o - 1 apostrophes for o > 1;
\* the token is "[<pitch>/8]z7/8"; different notes give different tokens; the
\* token does not depend on beat or unit_length.
C14_KeyswitchToken ==
    call.op = "inject_keyswitch" =>
        /\ call.res = Ok(<<"[">>
                         \o ExpectedPitch(ModTwelve(call.note), FloorTwelfth(call.note) - 5)
                         \o <<"/", "8", "]", "z", "7", "/", "8">>)
        /\ \A m \in Notes :
              m # call.note =>
                  inject_keyswitch(m, call.beat, call.unit_length) # call.res.val
        /\ \A beat \in Beats, unit_length \in KeyswitchUnitLengths :
              inject_keyswitch(call.note, beat, unit_length) = call.res.val

C14_Witness ==
    /\ call.op = "inject_keyswitch"
    /\ call.note = 85
    /\ call.res = Ok(<<"[", "^", "c", "'", "/", "8", "]", "z", "7", "/", "8">>)

----------------------------------------------------------------------------
(* Properties of the section assembler (Spec) *)

IsAssemble == call.op = "assemble_instrument"

\* the two ValueErrors of assemble_instrument, told apart by their message
IsBarMismatch(res) == ~res.ok /\ res.err = "ValueError" /\ res.msg[1] = "Section '"
IsUnknownSection(res) ==
    ~res.ok /\ res.err = "ValueError" /\ res.msg[1] = "Unknown section: "

UniqueNames(sections) ==
    \A i, j \in 1..Len(sections) : sections[i].name = sections[j].name => i = j
HasName(sections, name) == \E i \in 1..Len(sections) : sections[i].name = name
TextOf(sections, name) ==
    sections[CHOOSE i \in 1..Len(sections) : sections[i].name = name].abc

\* what follows the header lines: a newline, then per structure entry a newline,
\* the marker line, a newline and the section's text
RECURSIVE ExpectedBody(_, _)
ExpectedBody(sections, structure) ==
    IF structure = <<>> THEN <<>>
    ELSE <<"\n", "% Section: ", Head(structure), "\n">>
         \o TextOf(sections, Head(structure))
         \o ExpectedBody(sections, Tail(structure))

Occurrences(seq, x) == Cardinality({i \in 1..Len(seq) : seq[i] = x})
Markers(doc, name) ==
    Cardinality({i \in 1..(Len(doc) - 1) : doc[i] = "% Section: " /\ doc[i + 1] = name})

Passes(section, h) ==
    LET v == validate_bars(section.abc, section.bars, h.meter, h.unit_length)
    IN  v.ok /\ v.val[1]
Mismatches(section, h) ==
    LET v == validate_bars(section.abc, section.bars, h.meter, h.unit_length)
    IN  v.ok /\ ~v.val[1]
HasUnknownName(sections, structure) ==
    \E i \in 1..Len(structure) : ~HasName(sections, structure[i])

\* C8: if a name in structure is absent from the sections, assemble_instrument
\* fails with the unknown-section error and returns no document.
C8_UnknownSectionAlwaysReported ==
    (IsAssemble /\ HasUnknownName(call.sections, call.structure)) =>
        IsUnknownSection(call.res)

\* C8 as amended: if a name in structure is absent from the sections and every
\* supplied section passes bar validation, assemble_instrument fails with the
\* unknown-section error, whose message differs from the bar-mismatch one, and
\* returns no document, even when earlier structure entries were resolved.
C8_UnknownSectionAfterValidation ==
    (/\ IsAssemble
     /\ HasUnknownName(call.sections, call.structure)
     /\ \A i \in 1..Len(call.sections) : Passes(call.sections[i], call.before)) =>
        /\ IsUnknownSection(call.res)
        /\ ~IsBarMismatch(call.res)

C8_Witness ==
    /\ IsAssemble
    /\ Len(call.sections) = 1 /\ Passes(call.sections[1], call.before)
    /\ call.sections[1].name = "A"
    /\ call.structure = <<"A", "B">>
    /\ call.res = Raise("ValueError", <<"Unknown section: ", "B">>)

\* the first section of the list from position i on that does not pass, or 0
RECURSIVE FirstNotPassing(_, _, _)
FirstNotPassing(sections, i, h) ==
    IF i > Len(sections) THEN 0
    ELSE IF Passes(sections[i], h) THEN FirstNotPassing(sections, i + 1, h)
    ELSE i

\* res is the bar-mismatch failure for the section, v being validate_bars of it
ReportsMismatch(res, section, v) ==
    (v.ok /\ ~v.val[1]) =>
        /\ IsBarMismatch(res)
        /\ res.msg[2] = section.name
        /\ Drop(res.msg, 3) = v.val[2]

ReportsFirstMismatch(res, sections, k, h) ==
    k # 0 => ReportsMismatch(res, sections[k],
                             validate_bars(sections[k].abc, sections[k].bars,
                                           h.meter, h.unit_length))

\* C9: sections are validated in the order of the section list, not of structure;
\* the call fails naming the first section of the list whose bar count differs
\* from its declared one, also when structure never names it, and reports no
\* later section.
C9_FirstListedMismatchReported ==
    IsAssemble =>
        ReportsFirstMismatch(call.res, call.sections,
                             FirstNotPassing(call.sections, 1, call.before),
                             call.before)

C9_Witness ==
    /\ IsAssemble
    /\ Len(call.sections) = 2
    /\ call.sections[1].name = "B" /\ Mismatches(call.sections[1], call.before)
    /\ call.sections[2].name = "A" /\ Mismatches(call.sections[2], call.before)
    /\ call.structure = <<"A">>
    /\ IsBarMismatch(call.res) /\ call.res.msg[2] = "B"

AllReturned == \A i \in 1..Len(names) : names[i].returned

\* " - n1 - n2 ..." for the calls recorded in ns
RECURSIVE Suffixes(_)
Suffixes(ns) == IF ns = <<>> THEN <<>>
                ELSE Suffixes(SubSeq(ns, 1, Len(ns) - 1)) \o <<" - ", ns[Len(ns)].name>>

\* C10: after k successive successful calls on one header with instrument names
\* n1..nk the title is the original title followed by " - n1" .. " - nk" in call
\* order, the document of the i-th call carries the title with the first i
\* suffixes, and no other header field changes.
C10_CumulativeTitle ==
    /\ AllReturned =>
          /\ header.title = OriginalTitle \o Suffixes(names)
          /\ (IsAssemble /\ call.res.ok) =>
                SubSeq(call.res.val, 4, 5 + Len(header.title))
                    = <<"T:">> \o OriginalTitle \o Suffixes(names) \o <<"\n">>
    /\ [header EXCEPT !.title = OriginalTitle] \in Headers

C10_Witness ==
    /\ IsAssemble /\ call.res.ok
    /\ Len(names) = 2 /\ AllReturned
    /\ names[1].name = "lead" /\ names[2].name = "bass"
    /\ header.title = <<"Song", " - ", "lead", " - ", "bass">>

\* a line of no characters with a line of some characters after it
HasBlankLineInside(lines) ==
    \E i, j \in 1..Len(lines) : i < j /\ lines[i] = <<>> /\ lines[j] # <<>>

\* C12: a returned document has no blank line between the header and the music
\* or between sections; lines are separated by comment lines only.
C12_NoBlankLine ==
    (IsAssemble /\ call.res.ok) => ~HasBlankLineInside(Split(call.res.val, "\n"))

\* the first name of structure that no section has
FirstUnknown(sections, structure) ==
    structure[CHOOSE i \in 1..Len(structure) :
                  /\ ~HasName(sections, structure[i])
                  /\ \A j \in 1..(i - 1) : HasName(sections, structure[j])]

\* k is the first section of the list that does not pass, or 0
OneOutcome(res, k, unknown, sections, structure) ==
    /\ res.ok <=> (k = 0 /\ ~unknown)
    /\ res.ok => DOMAIN res = {"ok", "val"}
    /\ ~res.ok => (IsBarMismatch(res) # IsUnknownSection(res))
    /\ (k # 0 /\ unknown) => IsBarMismatch(res)
    /\ (k = 0 /\ unknown) =>
           res = Raise("ValueError",
                       <<"Unknown section: ", FirstUnknown(sections, structure)>>)

\* C16: every call of assemble_instrument ends in exactly one of a returned
\* document and a single failure; when a section has a bar mismatch and
\* structure has an unknown name, the bar mismatch is reported; among several
\* unknown names the first in structure order is reported.
C16_OneOutcomeMismatchFirst ==
    IsAssemble =>
        OneOutcome(call.res, FirstNotPassing(call.sections, 1, call.before),
                   HasUnknownName(call.sections, call.structure),
                   call.sections, call.structure)

C16_Witness ==
    /\ IsAssemble
    /\ Len(call.sections) = 1 /\ call.sections[1].name = "B"
    /\ Mismatches(call.sections[1], call.before)
    /\ call.structure = <<"A", "B">>
    /\ IsBarMismatch(call.res) /\ call.res.msg[2] = "B"

\* doc has the atoms of part in a row somewhere
Occurs(doc, part) ==
    \E i \in 1..(Len(doc) - Len(part) + 1) : SubSeq(doc, i, i + Len(part) - 1) = part

\* what every keyswitch token ends with, and what every control directive
\* begins with
KeyswitchRest == SubSeq(inject_keyswitch(60, <<0, 1>>, Frac(1, 8)), 5, 9)
ControlPrefix == <<inject_cc(0, 0)[1]>>

C18_FailureLeavesHeader ==
    (IsAssemble /\ ~call.res.ok) => header = call.before

====
